---- MODULE Spec2Model ----
(***************************************************************************)
(* Model of the authentication slice of the Workaround.io backend          *)
(* (src/main.py): hash_password, POST /auth/signup and POST /auth/login    *)
(* over the "user" and "session" collections of a document store.          *)
(*                                                                         *)
(* A request handler is cut at its store operations, so a handler is a     *)
(* short chain of steps (find, create, session); everything between two    *)
(* store operations is local computation and belongs to the step of the    *)
(* store operation that follows it.  With serial = TRUE a request starts   *)
(* only when no other request is in flight, which makes every handler run  *)
(* to completion before the next one starts.                               *)
(*                                                                         *)
(* Library behaviour assumed: `if db` is taken as `db is not None`; an     *)
(* exception that is not an HTTPException leaves the handler and is        *)
(* answered by the framework with status 500; PBKDF2 is collision free     *)
(* (the derived key is modelled as the pair of its inputs).                *)
(***************************************************************************)
EXTENDS Naturals, Sequences, FiniteSets

VARIABLES
    dbPresent,   \* the global handle `db` is not None (fixed at import time)
    serial,      \* requests run one at a time
    users,       \* collection "user", in insertion order
    sessions,    \* collection "session", in insertion order
    clock,       \* datetime.now(timezone.utc)
    pc,          \* per request slot: position in its handler
    op,          \* per slot: the handler last started, "signup" or "login"
    payload,     \* per slot: the request body of the handler last started
    frame,       \* per slot: the running handler's locals (user_id, record) and
                 \* whether it has issued find_one on "user" (checked)
    resp,        \* per slot: the last response sent, NoResp while a handler runs
    signups,     \* history: the payload of each account insert, parallel to users
    returned,    \* history: emails for which a signup returned a token
    okCount,     \* history: per account, the number of successful signups and logins
    hp_in,       \* hash_password probe: the arguments
    hp_out1,     \* hash_password probe: result of the first call
    hp_out2      \* hash_password probe: result of the second call

vars == <<dbPresent, serial, users, sessions, clock, pc, op, payload,
          frame, resp, signups, returned, okCount, hp_in, hp_out1, hp_out2>>

storeVars == <<users, sessions, clock, signups, okCount>>
probeVars == <<hp_in, hp_out1, hp_out2>>
envVars == <<dbPresent, serial>>

----
(* Bounds *)

MaxUsers == 2
MaxSessions == 3

\* Request slots: slot 1 is the only one used when requests run one at a time.
Procs == {1, 2}
Names == {"Ann", "Bob"}
Emails == {"a@x.com", "b@x.com"}
Passwords == {"secret123", "wrong"}
Tokens == {"t1", "t2"}

\* Strings that matter character by character are sequences of characters.
None == <<"None">>
RandomSalts == {<<"0", "a">>, <<"a", "0">>}

----
(* hash_password *)

HexVal == [c \in {"0", "1", "a", "A", "f", "F"} |->
             CASE c = "0" -> 0
               [] c = "1" -> 1
               [] c \in {"a", "A"} -> 10
               [] OTHER -> 15]

\* bytes.fromhex accepts pairs of hex digits, either case; anything else raises
\* ValueError.
IsHex(s) == Len(s) % 2 = 0 /\ \A i \in 1..Len(s) : s[i] \in DOMAIN HexVal

FromHex(s) ==
    [i \in 1..(Len(s) \div 2) |-> 16 * HexVal[s[2 * i - 1]] + HexVal[s[2 * i]]]

\* hashlib.pbkdf2_hmac("sha256", password, salt, 100_000).hex()
Pbkdf2Hex(password, saltBytes) == [pw |-> password, salt |-> saltBytes]

\* `salt or secrets.token_hex(16)`: None and the empty string are both falsy.
SaltOr(salt, fresh) == IF salt = None \/ salt = << >> THEN fresh ELSE salt

\* Faulty variant: the salt argument is ignored, a fresh salt is always drawn.
HashPasswordFreshSalt(password, salt, fresh) ==
    [raised |-> FALSE, salt |-> fresh, hash |-> Pbkdf2Hex(password, FromHex(fresh))]

\* hash_password(password, salt); `fresh` is what secrets.token_hex(16) returns
\* if it is called.  The result is (salt, hash), or raised = TRUE when fromhex
\* raises ValueError.
HashPassword(password, salt, fresh) ==
    LET s == SaltOr(salt, fresh)
    IN  IF IsHex(s)
        THEN [raised |-> FALSE, salt |-> s, hash |-> Pbkdf2Hex(password, FromHex(s))]
        ELSE [raised |-> TRUE, salt |-> << >>, hash |-> Pbkdf2Hex("", << >>)]

----
(* Document store *)

Str(oid) == [str |-> oid]

\* find_one({"email": email}): the first matching document, << >> for None.
FindOne(coll, email) ==
    LET hits == {i \in 1..Len(coll) : coll[i].email = email}
    IN  IF hits = {} THEN << >>
        ELSE <<coll[CHOOSE i \in hits : \A j \in hits : i <= j]>>

Truthy(x) == x # << >>

\* User(name=..., email=..., password_hash=..., password_salt=...)
User(name, email, pwd_hash, salt) ==
    [name |-> name, email |-> email, password_hash |-> pwd_hash,
     password_salt |-> salt, role |-> "worker", is_active |-> TRUE]

\* create_document(collection, data): raises when the handle is absent, else
\* inserts and returns the generated id.
CanInsert == dbPresent

NewId(coll) == Len(coll) + 1

WithId(doc, oid) ==
    [_id |-> oid, name |-> doc.name, email |-> doc.email,
     password_hash |-> doc.password_hash, password_salt |-> doc.password_salt,
     role |-> doc.role, is_active |-> doc.is_active]

Session(uid, token, now) == [user_id |-> uid, token |-> token, created_at |-> now]

----
(* Responses *)

NoResp == [status |-> 0, detail |-> "", token |-> "", name |-> "", email |-> ""]
Error(status, detail) ==
    [status |-> status, detail |-> detail, token |-> "", name |-> "", email |-> ""]
AuthResponse(token, name, email) ==
    [status |-> 200, detail |-> "", token |-> token, name |-> name, email |-> email]

EmailInUseResp == Error(400, "Email already in use")
InvalidCredentialsResp == Error(401, "Invalid credentials")
DbNotAvailableResp == Error(500, "Database not available")
\* an exception that is not an HTTPException
InternalErrorResp == Error(500, "Internal Server Error")

ErrorKind(r) ==
    CASE r.status = 400 -> "EmailInUse"
      [] r.status = 401 -> "InvalidCredentials"
      [] r.status = 500 -> "StorageUnavailable"
      [] OTHER -> "none"

----
(* Requests *)

Idle(p) == pc[p] = "idle"
InFlight == {q \in Procs : pc[q] # "idle"}
CreatingAccount == {q \in Procs : pc[q] \in {"su_find", "su_create"}}

NoPayload == [name |-> "", email |-> "", password |-> ""]
NoFrame == [user_id |-> << >>, record |-> << >>, checked |-> FALSE]

\* A request may start: under serial, only when nothing else runs.  The room
\* guards keep the collections within MaxUsers and MaxSessions.
MayStart(p) ==
    /\ Idle(p)
    /\ serial => (p = 1 /\ InFlight = {})
    /\ Len(sessions) + Cardinality(InFlight) < MaxSessions

\* The handler returns or raises: the response goes out, the locals die.
Finish(p, r) ==
    /\ pc' = [pc EXCEPT ![p] = "idle"]
    /\ resp' = [resp EXCEPT ![p] = r]
    /\ frame' = [frame EXCEPT ![p] = NoFrame]
    /\ UNCHANGED <<op, payload>>

\* The handler goes on to its next store operation with locals f.
Goto(p, label, f) ==
    /\ pc' = [pc EXCEPT ![p] = label]
    /\ frame' = [frame EXCEPT ![p] = f]
    /\ UNCHANGED <<resp, op, payload>>

\* POST /auth/signup arrives.
SignupCall(p, n, e, pw) ==
    /\ MayStart(p)
    /\ \/ Len(users) + Cardinality(CreatingAccount) < MaxUsers
       \/ serial /\ dbPresent /\ Truthy(FindOne(users, e))   \* refused: needs no room
    /\ pc' = [pc EXCEPT ![p] = "su_find"]
    /\ op' = [op EXCEPT ![p] = "signup"]
    /\ payload' = [payload EXCEPT ![p] = [name |-> n, email |-> e, password |-> pw]]
    /\ frame' = [frame EXCEPT ![p] = NoFrame]
    /\ resp' = [resp EXCEPT ![p] = NoResp]
    /\ UNCHANGED <<storeVars, returned, envVars, probeVars>>

\* Faulty variant: the refusal carries another status.
SignupFindWrongError(p) ==
    /\ pc[p] = "su_find"
    /\ IF dbPresent
       THEN IF Truthy(FindOne(users, payload[p].email))
            THEN Finish(p, Error(409, "Email already in use"))
            ELSE Goto(p, "su_create", [frame[p] EXCEPT !.checked = TRUE])
       ELSE Goto(p, "su_create", frame[p])
    /\ UNCHANGED <<storeVars, returned, envVars, probeVars>>

\* Faulty variant: the result of the lookup is not acted upon.
SignupFindNoCheck(p) ==
    /\ pc[p] = "su_find"
    /\ Goto(p, "su_create", [frame[p] EXCEPT !.checked = dbPresent])
    /\ UNCHANGED <<storeVars, returned, envVars, probeVars>>

\* Faulty variant: the account is inserted before the lookup's result is acted upon.
SignupFindInsertsFirst(p) ==
    /\ pc[p] = "su_find"
    /\ IF dbPresent
       THEN IF Truthy(FindOne(users, payload[p].email))
            THEN /\ users' = Append(users, WithId(User(payload[p].name, payload[p].email,
                                                        Pbkdf2Hex(payload[p].password, << >>),
                                                        << >>), NewId(users)))
                 /\ signups' = Append(signups, payload[p])
                 /\ okCount' = Append(okCount, 0)
                 /\ Finish(p, EmailInUseResp)
            ELSE /\ Goto(p, "su_create", [frame[p] EXCEPT !.checked = TRUE])
                 /\ UNCHANGED <<users, signups, okCount>>
       ELSE /\ Goto(p, "su_create", frame[p])
            /\ UNCHANGED <<users, signups, okCount>>
    /\ UNCHANGED <<sessions, clock, returned, envVars, probeVars>>

\* signup, lines 80-82: the existence check.
SignupFind(p) ==
    /\ pc[p] = "su_find"
    /\ IF dbPresent
       THEN IF Truthy(FindOne(users, payload[p].email))
            THEN Finish(p, EmailInUseResp)
            ELSE Goto(p, "su_create", [frame[p] EXCEPT !.checked = TRUE])
       ELSE Goto(p, "su_create", frame[p])
    /\ UNCHANGED <<storeVars, returned, envVars, probeVars>>

\* Faulty variant: the account insert enforces unique emails.
SignupCreateUnique(p) ==
    /\ pc[p] = "su_create"
    /\ \E fresh \in RandomSalts :
         LET h == HashPassword(payload[p].password, None, fresh)
             user == User(payload[p].name, payload[p].email, h.hash, h.salt)
             oid == NewId(users)
         IN  IF CanInsert /\ ~Truthy(FindOne(users, payload[p].email))
             THEN /\ users' = Append(users, WithId(user, oid))
                  /\ signups' = Append(signups, payload[p])
                  /\ okCount' = Append(okCount, 0)
                  /\ Goto(p, "su_session", [frame[p] EXCEPT !.user_id = <<Str(oid)>>])
             ELSE /\ Finish(p, InternalErrorResp)
                  /\ UNCHANGED <<users, signups, okCount>>
    /\ UNCHANGED <<sessions, clock, returned, envVars, probeVars>>

\* signup, lines 83-85: hash the password, build the User, insert it.
SignupCreate(p) ==
    /\ pc[p] = "su_create"
    /\ \E fresh \in RandomSalts :
         LET h == HashPassword(payload[p].password, None, fresh)
             user == User(payload[p].name, payload[p].email, h.hash, h.salt)
             oid == NewId(users)
         IN  IF CanInsert
             THEN /\ users' = Append(users, WithId(user, oid))
                  /\ signups' = Append(signups, payload[p])
                  /\ okCount' = Append(okCount, 0)
                  /\ Goto(p, "su_session", [frame[p] EXCEPT !.user_id = <<Str(oid)>>])
             ELSE /\ Finish(p, InternalErrorResp)
                  /\ UNCHANGED <<users, signups, okCount>>
    /\ UNCHANGED <<sessions, clock, returned, envVars, probeVars>>

\* Faulty variant: the token stored and the token returned are minted separately.
SignupSessionTwoTokens(p) ==
    /\ pc[p] = "su_session"
    /\ \E token \in Tokens, other \in Tokens :
         /\ sessions' = Append(sessions, Session(frame[p].user_id[1], other, clock))
         /\ clock' = clock + 1
         /\ okCount' = [okCount EXCEPT ![frame[p].user_id[1].str] = @ + 1]
         /\ returned' = returned \cup {payload[p].email}
         /\ Finish(p, AuthResponse(token, payload[p].name, payload[p].email))
    /\ UNCHANGED <<users, signups, envVars, probeVars>>

\* signup, lines 86-92: mint a token, insert the session, answer.
SignupSession(p) ==
    /\ pc[p] = "su_session"
    /\ \E token \in Tokens :
         IF dbPresent
         THEN /\ sessions' = Append(sessions, Session(frame[p].user_id[1], token, clock))
              /\ clock' = clock + 1
              /\ okCount' = [okCount EXCEPT ![frame[p].user_id[1].str] = @ + 1]
              /\ returned' = returned \cup {payload[p].email}
              /\ Finish(p, AuthResponse(token, payload[p].name, payload[p].email))
         ELSE /\ Finish(p, InternalErrorResp)
              /\ UNCHANGED <<sessions, clock, okCount, returned>>
    /\ UNCHANGED <<users, signups, envVars, probeVars>>

\* POST /auth/login arrives.
LoginCall(p, e, pw) ==
    /\ MayStart(p)
    /\ pc' = [pc EXCEPT ![p] = "li_find"]
    /\ op' = [op EXCEPT ![p] = "login"]
    /\ payload' = [payload EXCEPT ![p] = [name |-> "", email |-> e, password |-> pw]]
    /\ frame' = [frame EXCEPT ![p] = NoFrame]
    /\ resp' = [resp EXCEPT ![p] = NoResp]
    /\ UNCHANGED <<storeVars, returned, envVars, probeVars>>

\* Faulty variant: an unknown email is answered differently from a wrong password.
LoginFindUserNotFound(p) ==
    /\ pc[p] = "li_find"
    /\ LET found == FindOne(users, payload[p].email)
       IN  IF ~Truthy(found)
           THEN Finish(p, Error(404, "User not found"))
           ELSE IF HashPassword(payload[p].password, found[1].password_salt,
                                found[1].password_salt).hash # found[1].password_hash
                THEN Finish(p, InvalidCredentialsResp)
                ELSE Goto(p, "li_session",
                          [frame[p] EXCEPT !.record = found, !.checked = TRUE])
    /\ UNCHANGED <<storeVars, returned, envVars, probeVars>>

\* login, lines 96-104: handle check, lookup, verification.
LoginFind(p) ==
    /\ pc[p] = "li_find"
    /\ \E fresh \in RandomSalts :
         IF ~dbPresent
         THEN Finish(p, DbNotAvailableResp)
         ELSE LET found == FindOne(users, payload[p].email)
              IN  IF ~Truthy(found)
                  THEN Finish(p, InvalidCredentialsResp)
                  ELSE LET h == HashPassword(payload[p].password,
                                             found[1].password_salt, fresh)
                       IN  IF h.raised
                           THEN Finish(p, InternalErrorResp)
                           ELSE IF h.hash # found[1].password_hash
                                THEN Finish(p, InvalidCredentialsResp)
                                ELSE Goto(p, "li_session",
                                          [frame[p] EXCEPT !.record = found,
                                                           !.checked = TRUE])
    /\ UNCHANGED <<storeVars, returned, envVars, probeVars>>

\* Faulty variant: a login replaces the earlier sessions of the account.
LoginSessionSingle(p) ==
    /\ pc[p] = "li_session"
    /\ \E token \in Tokens :
         LET rec == frame[p].record[1]
             kept == SelectSeq(sessions, LAMBDA x : x.user_id # Str(rec._id))
         IN  /\ sessions' = Append(kept, Session(Str(rec._id), token, clock))
             /\ clock' = clock + 1
             /\ okCount' = [okCount EXCEPT ![rec._id] = @ + 1]
             /\ Finish(p, AuthResponse(token, rec.name, rec.email))
    /\ UNCHANGED <<users, signups, returned, envVars, probeVars>>

\* login, lines 105-111: mint a token, insert the session, answer.
LoginSession(p) ==
    /\ pc[p] = "li_session"
    /\ \E token \in Tokens :
         LET rec == frame[p].record[1]
         IN  /\ sessions' = Append(sessions, Session(Str(rec._id), token, clock))
             /\ clock' = clock + 1
             /\ okCount' = [okCount EXCEPT ![rec._id] = @ + 1]
             /\ Finish(p, AuthResponse(token, rec.name, rec.email))
    /\ UNCHANGED <<users, signups, returned, envVars, probeVars>>

----
(* Store faults *)

\* The store operation the handler is about to make raises (the store cannot
\* be reached): the exception leaves the handler, nothing is written.
StoreRaises(p) ==
    /\ dbPresent
    /\ pc[p] # "idle"
    /\ Finish(p, InternalErrorResp)
    /\ UNCHANGED <<storeVars, returned, envVars, probeVars>>

----
(* hash_password called twice with the same arguments *)

ProbeChars == {"0", "a", "A", "g"}
SaltArgs ==
    {None, << >>} \cup {<<c>> : c \in ProbeChars}
      \cup {<<c, d>> : c \in ProbeChars, d \in ProbeChars}

NoArgs == [password |-> "", salt |-> None]
NoOut == [raised |-> TRUE, salt |-> None, hash |-> Pbkdf2Hex("", << >>)]

HashFirst(pw, salt) ==
    /\ hp_in = NoArgs /\ hp_out1 = NoOut
    /\ hp_in' = [password |-> pw, salt |-> salt]
    /\ \E fresh \in RandomSalts : hp_out1' = HashPassword(pw, salt, fresh)
    /\ UNCHANGED <<hp_out2, envVars, storeVars, returned, pc, op, payload, frame, resp>>

HashSecond ==
    /\ hp_out1 # NoOut /\ hp_out2 = NoOut
    /\ \E fresh \in RandomSalts : hp_out2' = HashPassword(hp_in.password, hp_in.salt, fresh)
    /\ UNCHANGED <<hp_in, hp_out1, envVars, storeVars, returned, pc, op, payload, frame, resp>>

----
(* Specifications *)

InitRest ==
    /\ users = << >> /\ sessions = << >> /\ clock = 0
    /\ pc = [p \in Procs |-> "idle"]
    /\ op = [p \in Procs |-> "none"]
    /\ payload = [p \in Procs |-> NoPayload]
    /\ frame = [p \in Procs |-> NoFrame]
    /\ resp = [p \in Procs |-> NoResp]
    /\ signups = << >> /\ returned = {} /\ okCount = << >>
    /\ hp_in = NoArgs /\ hp_out1 = NoOut /\ hp_out2 = NoOut

Next ==
    \/ \E p \in Procs, n \in Names, e \in Emails, pw \in Passwords : SignupCall(p, n, e, pw)
    \/ \E p \in Procs : SignupFind(p)
    \/ \E p \in Procs : SignupCreate(p)
    \/ \E p \in Procs : SignupSession(p)
    \/ \E p \in Procs, e \in Emails, pw \in Passwords : LoginCall(p, e, pw)
    \/ \E p \in Procs : LoginFind(p)
    \/ \E p \in Procs : LoginSession(p)

\* Requests one at a time, store present and healthy.
Init == dbPresent = TRUE /\ serial = TRUE /\ InitRest
Spec == Init /\ [][Next]_vars

\* Signups interleaved at their store operations, store present and healthy.
InitConc == dbPresent = TRUE /\ serial = FALSE /\ InitRest
NextConc ==
    \/ \E p \in Procs, n \in Names, e \in Emails, pw \in Passwords : SignupCall(p, n, e, pw)
    \/ \E p \in Procs : SignupFind(p)
    \/ \E p \in Procs : SignupCreate(p)
    \/ \E p \in Procs : SignupSession(p)
SpecConc == InitConc /\ [][NextConc]_vars

\* Requests one at a time; the handle may be absent and the store may fail.
InitFault == dbPresent \in BOOLEAN /\ serial = TRUE /\ InitRest
NextFault == Next \/ \E p \in Procs : StoreRaises(p)
SpecFault == InitFault /\ [][NextFault]_vars

\* Signups one at a time against a store that may fail.
NextSignupFault ==
    \/ \E p \in Procs, n \in Names, e \in Emails, pw \in Passwords : SignupCall(p, n, e, pw)
    \/ \E p \in Procs : SignupFind(p)
    \/ \E p \in Procs : SignupCreate(p)
    \/ \E p \in Procs : SignupSession(p)
    \/ \E p \in Procs : StoreRaises(p)
SpecSignupFault == InitFault /\ [][NextSignupFault]_vars

\* hash_password alone.
NextHash ==
    \/ \E pw \in Passwords, salt \in SaltArgs : HashFirst(pw, salt)
    \/ HashSecond
SpecHash == Init /\ [][NextHash]_vars

----
(* Vocabulary of the properties *)

\* Slot p holds a finished request and its response.
Done(p) == pc[p] = "idle" /\ op[p] # "none"
\* The handler in slot p takes a step; it answers.
Steps(p) == pc[p] # "idle" /\ pc'[p] # pc[p]
Answers(p) == pc[p] # "idle" /\ pc'[p] = "idle"

IsPrefix(s, t) == Len(s) <= Len(t) /\ \A i \in 1..Len(s) : s[i] = t[i]
AccountsOf(e) == {i \in 1..Len(users) : users[i].email = e}
SessionsOf(i) == {j \in 1..Len(sessions) : sessions[j].user_id = Str(users[i]._id)}
NoAccount(e) == AccountsOf(e) = {}
WrongPassword(e, pw) == \E i \in AccountsOf(e) : signups[i].password # pw

----
(* Properties, requests one at a time (Spec) *)

\* C1: once a signup with email E has returned a token, every step of a later
\* signup with E (any name, any password) is its answer, the answer is
\* "Email already in use" (400, EmailInUse), and the step adds no account and
\* no session.
C1_SecondSignupRejected ==
    [][\A p \in Procs :
         (op[p] = "signup" /\ Steps(p) /\ payload[p].email \in returned)
           => /\ pc'[p] = "idle"
              /\ resp'[p] = EmailInUseResp
              /\ ErrorKind(resp'[p]) = "EmailInUse"
              /\ users' = users
              /\ sessions' = sessions]_vars

\* A second signup with the email of an account, under another name and
\* another password, has been refused.
C1_Witness ==
    \E p \in Procs :
      /\ Done(p) /\ op[p] = "signup" /\ resp[p] = EmailInUseResp
      /\ payload[p].email \in returned
      /\ \E i \in AccountsOf(payload[p].email) :
           signups[i].password # payload[p].password /\ signups[i].name # payload[p].name

\* C2: a login with an email that has no account and a login with the email of
\* an account but another password than the one given at signup are answered
\* alike, 401 "Invalid credentials" (InvalidCredentials), and add no session.
C2_InvalidCredentials ==
    [][\A p \in Procs :
         (/\ op[p] = "login" /\ Steps(p)
          /\ \/ NoAccount(payload[p].email)
             \/ WrongPassword(payload[p].email, payload[p].password))
           => /\ pc'[p] = "idle"
              /\ resp'[p] = InvalidCredentialsResp
              /\ ErrorKind(resp'[p]) = "InvalidCredentials"
              /\ sessions' = sessions]_vars

\* A login with a wrong password has been refused while the other email has
\* no account.
C2_Witness ==
    \E p \in Procs :
      /\ Done(p) /\ op[p] = "login" /\ resp[p] = InvalidCredentialsResp
      /\ WrongPassword(payload[p].email, payload[p].password)
      /\ \E e \in Emails : NoAccount(e)

\* C3: the password given at signup verifies against the stored salt and hash,
\* and a finished login with the email and password of a signup carries a
\* token and the name and email given at that signup.
C3_LoginAfterSignup ==
    /\ \A i \in 1..Len(users) : \A fresh \in RandomSalts :
         LET h == HashPassword(signups[i].password, users[i].password_salt, fresh)
         IN  ~h.raised /\ h.hash = users[i].password_hash
    /\ \A p \in Procs :
         (Done(p) /\ op[p] = "login")
           => \A i \in AccountsOf(payload[p].email) :
                signups[i].password = payload[p].password
                  => /\ resp[p].status = 200
                     /\ resp[p].token \in Tokens
                     /\ resp[p].name = signups[i].name
                     /\ resp[p].email = signups[i].email

\* The first account logs in successfully after a second signup and another
\* login took place.
C3_Witness ==
    \E p \in Procs :
      /\ Done(p) /\ op[p] = "login" /\ resp[p].status = 200
      /\ Len(users) = 2 /\ Len(sessions) = 3
      /\ payload[p].email = users[1].email
      /\ sessions[3].user_id = Str(users[1]._id)

\* C4: no two account records have the same email.
C4_UniqueEmails ==
    \A i, j \in 1..Len(users) : users[i].email = users[j].email => i = j

\* Two accounts exist and a further signup was refused.
C4_Witness ==
    /\ Len(users) = 2
    /\ \E p \in Procs : Done(p) /\ op[p] = "signup" /\ resp[p] = EmailInUseResp

\* C6: an answer with a token goes with exactly one new session record, which
\* holds that token, the id of the account of the request's email and the
\* current time; sessions change in no other step; and every account has as
\* many sessions as it has had successful signups and logins.
C6_OneSessionPerSuccess ==
    /\ [](\A i \in 1..Len(users) : Cardinality(SessionsOf(i)) = okCount[i])
    /\ [][\A p \in Procs :
            (Answers(p) /\ resp'[p].status = 200)
              => \E i \in 1..Len(users') :
                   /\ users'[i].email = payload[p].email
                   /\ sessions' = Append(sessions,
                                         Session(Str(users'[i]._id), resp'[p].token, clock))]_vars
    /\ [][sessions' # sessions
            => \E p \in Procs : Answers(p) /\ resp'[p].status = 200]_vars

\* An account has two sessions, one from its signup and one from a login.
C6_Witness ==
    \E i \in 1..Len(users) :
      /\ okCount[i] = 2 /\ Cardinality(SessionsOf(i)) = 2
      /\ \E p \in Procs : Done(p) /\ op[p] = "login" /\ resp[p].status = 200
                          /\ payload[p].email = users[i].email

\* C8: every step keeps the existing account records and session records as
\* they are (both collections only grow at the end), and a step of a login
\* leaves the account collection unchanged.
C8_RecordsNeverChange ==
    [][/\ IsPrefix(users, users')
       /\ IsPrefix(sessions, sessions')
       /\ \A p \in Procs :
            (op'[p] = "login" /\ pc'[p] # pc[p]) => users' = users]_vars

\* Two logins succeeded after a signup and all three sessions of the account
\* are there, in the order of their creation.
C8_Witness ==
    /\ Len(sessions) = 3 /\ Len(users) = 1
    /\ \A j \in 1..3 : sessions[j].user_id = Str(users[1]._id) /\ sessions[j].created_at = j - 1
    /\ \E p \in Procs : Done(p) /\ op[p] = "login" /\ resp[p].status = 200

----
(* Properties, signups interleaved (SpecConc) *)

\* C5: the existence check and the account insert are separate steps and the
\* insert enforces nothing: a signup that has passed the check inserts its
\* account whatever was inserted in the meantime, and then inserts its session
\* and answers with a token.  (The interleaving of the claim is C5_Witness.)
C5_InsertAfterCheckAlwaysLands ==
    [][\A p \in Procs :
         /\ (pc[p] = "su_create" /\ Steps(p))
              => /\ pc'[p] = "su_session"
                 /\ Len(users') = Len(users) + 1
                 /\ IsPrefix(users, users')
                 /\ users'[Len(users')].email = payload[p].email
         /\ (pc[p] = "su_session" /\ Steps(p))
              => /\ resp'[p].status = 200
                 /\ Len(sessions') = Len(sessions) + 1]_vars

\* Both signups with one email have returned a token and two account records
\* with that email are in the store, each with its own session.
C5_Witness ==
    /\ \A p \in Procs : Done(p) /\ op[p] = "signup" /\ resp[p].status = 200
    /\ payload[1].email = payload[2].email
    /\ Len(users) = 2
    /\ users[1].email = payload[1].email /\ users[2].email = payload[1].email
    /\ Len(sessions) = 2 /\ sessions[1].user_id # sessions[2].user_id

----
(* Properties, handle absent or store failing (SpecFault, SpecSignupFault) *)

\* C7: with the database handle absent, every finished signup and login has
\* failed with StorageUnavailable, nothing is ever written, and a signup does
\* not go on to the account insert with its existence check skipped.
C7_AbsentHandleFailsFast ==
    ~dbPresent =>
      /\ users = << >> /\ sessions = << >>
      /\ \A p \in Procs :
           /\ Done(p) => ErrorKind(resp[p]) = "StorageUnavailable"
           /\ pc[p] \in {"su_create", "su_session"} => frame[p].checked

\* C10 as claimed: when no request is at its session insert, every account's
\* email is one for which a signup returned a token.
C10_AllOrNothing ==
    \A i \in 1..Len(users) :
      \/ users[i].email \in returned
      \/ \E p \in Procs : pc[p] = "su_session" /\ payload[p].email = users[i].email

\* C10 as amended: an answer without a token is a step that writes nothing;
\* the account collection changes only in the insert step of a signup, which
\* leads to the session insert and not to an answer; every session belongs to
\* an account whose signup returned a token.  So a signup that fails at the
\* existence check or at the account insert has written nothing, and one that
\* fails at the session insert has written its account and no session.
C10_NoRollback ==
    /\ [][\A p \in Procs :
            (Answers(p) /\ resp'[p].status # 200)
              => users' = users /\ sessions' = sessions]_vars
    /\ [][users' # users
            => \E p \in Procs :
                 /\ pc[p] = "su_create" /\ pc'[p] = "su_session"
                 /\ Len(users') = Len(users) + 1
                 /\ sessions' = sessions]_vars
    /\ [](\A j \in 1..Len(sessions) :
            \E i \in 1..Len(users) :
              sessions[j].user_id = Str(users[i]._id) /\ users[i].email \in returned)

\* A signup failed at its session insert: its account is in the store, without
\* a session, and no signup for its email has returned a token.
C10_Witness ==
    \E p \in Procs : \E i \in 1..Len(users) :
      /\ Done(p) /\ op[p] = "signup" /\ resp[p] = InternalErrorResp
      /\ users[i].email = payload[p].email
      /\ users[i].email \notin returned
      /\ SessionsOf(i) = {}

----
(* Properties of hash_password (SpecHash) *)

\* C9: two calls with the same password and the same salt string, the empty
\* string included, return the same hash and the salt that was passed.
C9_DeterministicGivenSalt ==
    (hp_out2 # NoOut /\ hp_in.salt # None /\ IsHex(hp_in.salt))
      => /\ hp_out1 = hp_out2
         /\ hp_out1.salt = hp_in.salt

====
